---- MODULE Spec2Model ----
(***************************************************************************)
(* A model of the instruction mediator of EasyLinux (src/agent.py, class   *)
(* AIAgent): the command validator and its rule registry, the path         *)
(* containment check, the process executor and the database connection     *)
(* lifecycle.                                                              *)
(*                                                                         *)
(* A Python str is modelled as the sequence of its characters, each a      *)
(* one-character string, so that startswith, strip, split and slicing are  *)
(* computed character by character, as the code computes them.             *)
(***************************************************************************)
EXTENDS Integers, Sequences, FiniteSets, TLC

VARIABLES
    call,           \* the method invoked last and its argument
    result,         \* what that call returned
    spawned,        \* the child processes that call started, in order
    written,        \* the files that call wrote
    sent,           \* the statements that call sent to a database backend
    cwd,            \* the process's current directory (os.getcwd())
    symlinks,       \* the symbolic links of the filesystem: a set of [at, to]
    regular_files,  \* the regular files directly under the working directory,
                    \* as os.listdir enumerates them
    db_connection,  \* self.db_connection
    db_config,      \* self.db_config
    explicitly_disconnected, \* history: no connection was registered since
                             \* construction or the last disconnect_database
    failed_connect, \* history: a connect_to_new_database made while the session
                    \* was connected failed (missing parameter, unsupported
                    \* type, backend error) and none registered a connection since
    loading_thread, \* the progress-indicator thread of connect_to_new_database:
                    \* "none", "created", "running" or "terminated"
    stop_loading,   \* the stop_loading event is set
    joining         \* what connect_to_new_database is about to return while
                    \* it waits in loading_thread.join(): <<>> or <<report>>

vars == << call, result, spawned, written, sent, cwd, symlinks, regular_files,
           db_connection, db_config, explicitly_disconnected, failed_connect,
           loading_thread, stop_loading, joining >>

\* the progress indicator of connect_to_new_database
thread_vars == << loading_thread, stop_loading, joining >>

-----------------------------------------------------------------------------
(* Bounds of the checked instances.                                        *)

MaxPathLen == 4     \* path segments concatenated into one candidate path
MaxArgs == 3        \* arguments handed to validate_command
MaxShellArgs == 2   \* arguments of a shell instruction
MaxSpaces == 2      \* blanks between the executable and its first argument
MaxPkgs == 2        \* package tokens after a pip sub-command

-----------------------------------------------------------------------------
(* str methods.                                                            *)

StartsWith(s, p) ==
    /\ Len(p) <= Len(s)
    /\ SubSeq(s, 1, Len(p)) = p

EndsWith(s, p) ==
    /\ Len(p) <= Len(s)
    /\ SubSeq(s, Len(s) - Len(p) + 1, Len(s)) = p

\* s[n:]
DropFirst(s, n) == SubSeq(s, n + 1, Len(s))

IsSpace(c) == c = " "

RECURSIVE LStrip(_)
LStrip(s) ==
    IF s # <<>> /\ IsSpace(Head(s)) THEN LStrip(Tail(s)) ELSE s

RECURSIVE RStrip(_)
RStrip(s) ==
    IF s # <<>> /\ IsSpace(s[Len(s)]) THEN RStrip(SubSeq(s, 1, Len(s) - 1)) ELSE s

\* s.strip()
Strip(s) == RStrip(LStrip(s))

\* s.strip(c) and s.lstrip(c) for a one-character c
RECURSIVE LStripChar(_, _)
LStripChar(s, c) ==
    IF s # <<>> /\ Head(s) = c THEN LStripChar(Tail(s), c) ELSE s

RECURSIVE RStripChar(_, _)
RStripChar(s, c) ==
    IF s # <<>> /\ s[Len(s)] = c THEN RStripChar(SubSeq(s, 1, Len(s) - 1), c) ELSE s

StripChar(s, c) == RStripChar(LStripChar(s, c), c)

\* s.find(sub) + 1: the position of the first occurrence of sub in s, 0 if none
Find(s, sub) ==
    LET hits == { i \in 1..(Len(s) - Len(sub) + 1) :
                    SubSeq(s, i, i + Len(sub) - 1) = sub }
    IN  IF hits = {} THEN 0
        ELSE CHOOSE i \in hits : \A j \in hits : i <= j

\* sub in s
Contains(s, sub) == Find(s, sub) # 0

\* s.split(sep)[0]
SplitHead(s, sep) ==
    IF Find(s, sep) = 0 THEN s ELSE SubSeq(s, 1, Find(s, sep) - 1)

\* s.split(sep, 1)[1], for an s that holds sep
SplitRest(s, sep) == DropFirst(s, Find(s, sep) + Len(sep) - 1)

LowerLetters ==
    << "a","b","c","d","e","f","g","h","i","j","k","l","m",
       "n","o","p","q","r","s","t","u","v","w","x","y","z" >>

UpperLetters ==
    << "A","B","C","D","E","F","G","H","I","J","K","L","M",
       "N","O","P","Q","R","S","T","U","V","W","X","Y","Z" >>

UpperChar(c) ==
    IF \E i \in 1..26 : LowerLetters[i] = c
    THEN UpperLetters[CHOOSE i \in 1..26 : LowerLetters[i] = c]
    ELSE c

\* s.upper()
Upper(s) == [i \in 1..Len(s) |-> UpperChar(s[i])]

\* sep.join(parts)
RECURSIVE Join(_, _)
Join(parts, sep) ==
    IF parts = <<>> THEN <<>>
    ELSE IF Len(parts) = 1 THEN parts[1]
    ELSE parts[1] \o sep \o Join(Tail(parts), sep)

\* shlex.split(s) for an s without quotes, backslashes or comment marks: the
\* maximal runs of non-blank characters, in order
RECURSIVE SplitBlank(_, _, _)
SplitBlank(s, cur, acc) ==
    IF s = <<>> THEN (IF cur = <<>> THEN acc ELSE Append(acc, cur))
    ELSE IF IsSpace(Head(s))
         THEN SplitBlank(Tail(s), <<>>, IF cur = <<>> THEN acc ELSE Append(acc, cur))
         ELSE SplitBlank(Tail(s), Append(cur, Head(s)), acc)

shlex_split(s) == SplitBlank(s, <<>>, <<>>)

\* s.split(c) for a one-character c: the pieces between the occurrences of c,
\* the empty ones included
RECURSIVE SplitChar(_, _, _, _)
SplitChar(s, c, cur, acc) ==
    IF s = <<>> THEN Append(acc, cur)
    ELSE IF Head(s) = c
         THEN SplitChar(Tail(s), c, <<>>, Append(acc, cur))
         ELSE SplitChar(Tail(s), c, Append(cur, Head(s)), acc)

-----------------------------------------------------------------------------
(* os.path                                                                 *)

Slash == <<"/">>
DotDot == <<".", ".">>
Dot == <<".">>

\* os.path.join(a, b)
path_join(a, b) ==
    IF StartsWith(b, Slash) THEN b
    ELSE IF a = <<>> \/ EndsWith(a, Slash) THEN a \o b
    ELSE a \o Slash \o b

\* the component loop of posixpath.normpath for a path with leading slashes
RECURSIVE NormComps(_, _)
NormComps(comps, new_comps) ==
    IF comps = <<>> THEN new_comps
    ELSE LET comp == Head(comps)
         IN  IF comp = <<>> \/ comp = Dot
             THEN NormComps(Tail(comps), new_comps)
             ELSE IF comp # DotDot
                     \/ (new_comps # <<>> /\ new_comps[Len(new_comps)] = DotDot)
                  THEN NormComps(Tail(comps), Append(new_comps, comp))
                  ELSE IF new_comps # <<>>
                       THEN NormComps(Tail(comps),
                                      SubSeq(new_comps, 1, Len(new_comps) - 1))
                       ELSE NormComps(Tail(comps), new_comps)

\* the components of the normalised form of an absolute path
abs_components(path) == NormComps(SplitChar(path, "/", <<>>, <<>>), <<>>)

\* os.path.abspath(path) for a path that is absolute already, which is what
\* os.path.join yields from the absolute working_directory or os.getcwd():
\* posixpath.normpath, which keeps exactly two leading slashes
abspath(path) ==
    LET initial_slashes ==
            IF StartsWith(path, <<"/", "/">>) /\ ~StartsWith(path, <<"/", "/", "/">>)
            THEN <<"/", "/">> ELSE Slash
    IN  initial_slashes \o Join(abs_components(path), Slash)

-----------------------------------------------------------------------------
(* The rule registry and the package allowlist (AIAgent.__init__).         *)

working_directory == <<"/","a","p","p","/","t","e","s","t">>

command_names ==
    { <<"c","d">>,
      <<"p","w","d">>,
      <<"l","s">>,
      <<"g","r","e","p">>,
      <<"f","i","n","d">>,
      <<"c","a","t">>,
      <<"h","e","a","d">>,
      <<"t","a","i","l">>,
      <<"w","c">>,
      <<"s","o","r","t">>,
      <<"u","n","i","q">>,
      <<"e","c","h","o">>,
      <<"p","s">>,
      <<"d","f">>,
      <<"d","u">>,
      <<"p","y","t","h","o","n">>,
      <<"p","y","t","h","o","n","3">>,
      <<"p","i","p">>,
      <<"p","i","p","3">>,
      <<"m","y","s","q","l">>,
      <<"q","u","e","r","y">> }

allowed_flags(command) ==
    CASE command = <<"c","d">> ->
           {  }
      [] command = <<"p","w","d">> ->
           {  }
      [] command = <<"l","s">> ->
           { <<"-","-","s","o","r","t">>, <<"-","S">>, <<"-","a">>, <<"-","h">>, <<"-","l">>, <<"-","l","S">>, <<"-","l","a">>, <<"-","l","h">>, <<"-","l","h","a">>, <<"-","r">> }
      [] command = <<"g","r","e","p">> ->
           { <<"-","-","r","e","c","u","r","s","i","v","e">>, <<"-","i">>, <<"-","l">>, <<"-","n">>, <<"-","r">>, <<"-","v">> }
      [] command = <<"f","i","n","d">> ->
           { <<"-","f">>, <<"-","n","a","m","e">>, <<"-","t","y","p","e">> }
      [] command = <<"c","a","t">> ->
           { <<"-","-","n","u","m","b","e","r">>, <<"-","n">> }
      [] command = <<"h","e","a","d">> ->
           { <<"-","n">> }
      [] command = <<"t","a","i","l">> ->
           { <<"-","f">>, <<"-","n">> }
      [] command = <<"w","c">> ->
           { <<"-","c">>, <<"-","l">>, <<"-","w">> }
      [] command = <<"s","o","r","t">> ->
           { <<"-","n">>, <<"-","r">> }
      [] command = <<"u","n","i","q">> ->
           { <<"-","c">>, <<"-","d">>, <<"-","u">> }
      [] command = <<"e","c","h","o">> ->
           { <<"-","e">>, <<"-","n">> }
      [] command = <<"p","s">> ->
           { <<"-","a">>, <<"-","e">>, <<"-","f">> }
      [] command = <<"d","f">> ->
           { <<"-","h">>, <<"-","i">> }
      [] command = <<"d","u">> ->
           { <<"-","a">>, <<"-","h">>, <<"-","s">>, <<"-","s","h">> }
      [] command = <<"p","y","t","h","o","n">> ->
           { <<"-","c">>, <<"-","m">>, <<"-","u">> }
      [] command = <<"p","y","t","h","o","n","3">> ->
           { <<"-","c">>, <<"-","m">>, <<"-","u">> }
      [] command = <<"p","i","p">> ->
           { <<"-","-","u","s","e","r">>, <<"-","-","v","e","r","s","i","o","n">>, <<"-","r">>, <<"f","r","e","e","z","e">>, <<"i","n","s","t","a","l","l">>, <<"l","i","s","t">>, <<"u","n","i","n","s","t","a","l","l">> }
      [] command = <<"p","i","p","3">> ->
           { <<"-","-","u","s","e","r">>, <<"-","-","v","e","r","s","i","o","n">>, <<"-","r">>, <<"f","r","e","e","z","e">>, <<"i","n","s","t","a","l","l">>, <<"l","i","s","t">>, <<"u","n","i","n","s","t","a","l","l">> }
      [] command = <<"m","y","s","q","l">> ->
           { <<"-","-","d","a","t","a","b","a","s","e">>, <<"-","-","e","x","e","c","u","t","e">>, <<"-","D">>, <<"-","e">>, <<"U","S","E">> }
      [] command = <<"q","u","e","r","y">> ->
           {  }
      [] OTHER -> {}

max_args(command) ==
    CASE command = <<"c","d">> -> 1
      [] command = <<"p","w","d">> -> 0
      [] command = <<"l","s">> -> 2
      [] command = <<"g","r","e","p">> -> 4
      [] command = <<"f","i","n","d">> -> 4
      [] command = <<"c","a","t">> -> 2
      [] command = <<"h","e","a","d">> -> 2
      [] command = <<"t","a","i","l">> -> 2
      [] command = <<"w","c">> -> 2
      [] command = <<"s","o","r","t">> -> 2
      [] command = <<"u","n","i","q">> -> 2
      [] command = <<"e","c","h","o">> -> 10
      [] command = <<"p","s">> -> 1
      [] command = <<"d","f">> -> 1
      [] command = <<"d","u">> -> 2
      [] command = <<"p","y","t","h","o","n">> -> 2
      [] command = <<"p","y","t","h","o","n","3">> -> 2
      [] command = <<"p","i","p">> -> 4
      [] command = <<"p","i","p","3">> -> 4
      [] command = <<"m","y","s","q","l">> -> 5
      [] command = <<"q","u","e","r","y">> -> 1
      [] OTHER -> 0

allowed_packages ==
    { <<"a","i","o","h","t","t","p">>,
      <<"b","e","a","u","t","i","f","u","l","s","o","u","p","4">>,
      <<"c","e","l","e","r","y">>,
      <<"d","j","a","n","g","o">>,
      <<"f","a","s","t","a","p","i">>,
      <<"f","l","a","s","k">>,
      <<"j","u","p","y","t","e","r">>,
      <<"m","a","t","p","l","o","t","l","i","b">>,
      <<"n","u","m","p","y">>,
      <<"o","p","e","n","c","v","-","p","y","t","h","o","n">>,
      <<"p","a","n","d","a","s">>,
      <<"p","i","l","l","o","w">>,
      <<"p","s","y","c","o","p","g","2","-","b","i","n","a","r","y">>,
      <<"p","y","m","o","n","g","o">>,
      <<"p","y","t","e","s","t">>,
      <<"r","e","d","i","s">>,
      <<"r","e","q","u","e","s","t","s">>,
      <<"s","c","i","k","i","t","-","l","e","a","r","n">>,
      <<"s","q","l","a","l","c","h","e","m","y">>,
      <<"t","e","n","s","o","r","f","l","o","w">>,
      <<"t","o","r","c","h">>,
      <<"u","v","i","c","o","r","n">> }
-----------------------------------------------------------------------------
(* The validators.                                                         *)

Dash == <<"-">>

\* [arg for arg in args if pred(arg)]
IsFlag(arg) == StartsWith(arg, Dash)

NonFlags(args) == SelectSeq(args, LAMBDA arg : ~IsFlag(arg))

Range(seq) == { seq[i] : i \in 1..Len(seq) }

validate_path(path) ==
    LET abs_path == abspath(path_join(working_directory, path))
    IN  StartsWith(abs_path, working_directory)

\* package.split('==')[0].split('>=')[0].split('<=')[0]
base_package(package) ==
    SplitHead(SplitHead(SplitHead(package, <<"=", "=">>), <<">", "=">>), <<"<", "=">>)

Ok == [ok |-> TRUE, reason |-> ""]
Fail(reason) == [ok |-> FALSE, reason |-> reason]

validate_pip_command(args) ==
    IF args = <<>> THEN Fail("No pip command specified")
    ELSE LET command == args[1]
             packages == NonFlags(Tail(args))
         IN  IF command = <<"i","n","s","t","a","l","l">>
             THEN IF \E i \in 1..Len(packages) :
                        base_package(packages[i]) \notin allowed_packages
                  THEN Fail("Package is not in the allowed list")
                  ELSE Ok
             ELSE IF command \notin { <<"l","i","s","t">>,
                                      <<"f","r","e","e","z","e">>,
                                      <<"-","-","v","e","r","s","i","o","n">> }
                  THEN Fail("Pip command is not allowed")
                  ELSE Ok

IsPython(command) ==
    command \in { <<"p","y","t","h","o","n">>, <<"p","y","t","h","o","n","3">> }

IsPip(command) == command \in { <<"p","i","p">>, <<"p","i","p","3">> }

\* the two carve-outs of validate_command
IsRawCode(command, args) ==
    IsPython(command) /\ Len(args) >= 2 /\ args[1] = <<"-","c">>

IsPipInstall(command, args) ==
    IsPip(command) /\ args # <<>> /\ args[1] = <<"i","n","s","t","a","l","l">>

\* validate_command with the argument count compared by >= instead of >
validate_command_off_by_one(command, args) ==
    IF command \notin command_names THEN Fail("Command is not allowed")
    ELSE IF IsRawCode(command, args) THEN Ok
    ELSE IF IsPipInstall(command, args) THEN validate_pip_command(args)
    ELSE LET \* the ls branch appends every argument unchanged on both arms
             flags == { arg \in Range(args) : IsFlag(arg) }
             non_flags == NonFlags(args)
         IN  IF flags \ allowed_flags(command) # {} THEN Fail("Invalid flags")
             ELSE IF Len(non_flags) >= max_args(command)
                  THEN Fail("Too many arguments")
             ELSE IF \E i \in 1..Len(non_flags) : ~validate_path(non_flags[i])
                  THEN Fail("Invalid path")
             ELSE Ok

validate_command(command, args) ==
    IF command \notin command_names THEN Fail("Command is not allowed")
    ELSE IF IsRawCode(command, args) THEN Ok
    ELSE IF IsPipInstall(command, args) THEN validate_pip_command(args)
    ELSE LET \* the ls branch appends every argument unchanged on both arms
             flags == { arg \in Range(args) : IsFlag(arg) }
             non_flags == NonFlags(args)
         IN  IF flags \ allowed_flags(command) # {} THEN Fail("Invalid flags")
             ELSE IF Len(non_flags) > max_args(command)
                  THEN Fail("Too many arguments")
             ELSE IF \E i \in 1..Len(non_flags) : ~validate_path(non_flags[i])
                  THEN Fail("Invalid path")
             ELSE Ok

-----------------------------------------------------------------------------
(* The filesystem the agent runs on.                                       *)

\* <<"app", "test">>: the components of working_directory
root_components == abs_components(working_directory)

\* a link inside the sandbox root whose target lies outside of it
EscapeLink ==
    [at |-> << <<"a","p","p">>, <<"t","e","s","t">>, <<"l","i","n","k">> >>,
     to |-> << <<"e","t","c">> >>]

SymlinkWorlds == { {}, {EscapeLink} }

\* the components of the symlink-resolved form of a normalised absolute path
\* (link targets hold no links themselves)
RECURSIVE Resolve(_, _, _)
Resolve(comps, cur, links) ==
    IF comps = <<>> THEN cur
    ELSE LET nxt == Append(cur, Head(comps))
         IN  IF \E l \in links : l.at = nxt
             THEN Resolve(Tail(comps), (CHOOSE l \in links : l.at = nxt).to, links)
             ELSE Resolve(Tail(comps), nxt, links)

real_components(path, links) == Resolve(abs_components(path), <<>>, links)

\* the root itself or a descendant of it, component by component
Contained(comps) ==
    /\ Len(comps) >= Len(root_components)
    /\ SubSeq(comps, 1, Len(root_components)) = root_components

-----------------------------------------------------------------------------
(* The state after construction (AIAgent.__init__).                        *)

NoConnection == [kind |-> "none", connected |-> FALSE, host |-> "none"]

EnvConfig ==
    [host |-> "mysql", user |-> "root", password |-> "rootpassword",
     database |-> "testdb"]

Returned(kind, success) ==
    [kind |-> kind, success |-> success, raised |-> FALSE, sections |-> <<>>,
     echoed |-> {}]

\* no call is outstanding / a call was handed over and waits for its handler
Idle == Returned("idle", TRUE)
Pending == Returned("pending", FALSE)
NoCall == [op |-> "none", arg |-> <<>>]

\* os.listdir: the regular files directly under the working directory
FileListings ==
    { <<>>,
      << <<"d","a","t","a",".","t","x","t">> >>,
      << <<"d","a","t","a",".","t","x","t">>, <<"t","e","s","t",".","p","y">> >> }

\* the directory the process was started in
StartDirs == { <<"/","a","p","p">>, <<"/","a","p","p","/","t","e","s","t">> }

Init ==
    /\ call = NoCall
    /\ result = Idle
    /\ spawned = <<>>
    /\ written = {}
    /\ sent = <<>>
    /\ cwd \in StartDirs
    /\ symlinks \in SymlinkWorlds
    /\ regular_files \in FileListings
    /\ db_connection = NoConnection
    /\ db_config = EnvConfig
    /\ explicitly_disconnected = TRUE
    /\ failed_connect = FALSE
    /\ loading_thread = "none"
    /\ stop_loading = FALSE
    /\ joining = <<>>

\* the caller hands over a call
Submit(op, arg) ==
    /\ result = Idle
    /\ call' = [op |-> op, arg |-> arg]
    /\ result' = Pending
    /\ UNCHANGED << spawned, written, sent, cwd, symlinks, regular_files,
                    db_connection, db_config, explicitly_disconnected,
                    failed_connect >>
    /\ UNCHANGED thread_vars

\* the handler of `op` may run
Called(op) == call.op = op /\ result = Pending

\* a call came back (it returned or raised) and its report is there to read
Back == result.kind \notin {"idle", "pending", "never returns"}

\* the caller takes the report
Deliver ==
    /\ Back
    /\ call' = NoCall
    /\ result' = Idle
    /\ spawned' = <<>>
    /\ written' = {}
    /\ sent' = <<>>
    /\ loading_thread' = "none"
    /\ stop_loading' = FALSE
    /\ UNCHANGED << cwd, symlinks, regular_files, db_connection, db_config,
                    explicitly_disconnected, failed_connect, joining >>

-----------------------------------------------------------------------------
(* The validators applied to bounded inputs.                               *)

SeqsUpTo(S, n) == UNION { [1..k -> S] : k \in 0..n }

PathSegments ==
    { <<"/">>, <<".",".">>, <<"a","p","p">>, <<"t","e","s","t">>, <<"2">>,
      <<"l","i","n","k">> }

Paths == { Join(segs, <<>>) : segs \in SeqsUpTo(PathSegments, MaxPathLen) }

ArgTokens ==
    { <<"-","l">>, <<"-","n">>, <<"-","c">>, <<"-","z">>,
      <<"i","n","s","t","a","l","l">>, <<"d","a","t","a">>, <<".",".">> }

Commands == command_names \cup { <<"r","m">> }

SubmitValidation ==
    /\ result = Idle
    /\ \/ \E path \in Paths : Submit("validate_path", path)
       \/ \E command \in Commands, args \in SeqsUpTo(ArgTokens, MaxArgs) :
             Submit("validate_command", [command |-> command, args |-> args])

ValidatePath ==
    /\ Called("validate_path")
    /\ result' = Returned("bool", validate_path(call.arg))
    /\ UNCHANGED << call, spawned, written, sent, cwd, symlinks, regular_files,
                    db_connection, db_config, explicitly_disconnected,
                    failed_connect >>
    /\ UNCHANGED thread_vars

ValidateCommand ==
    /\ Called("validate_command")
    /\ LET r == validate_command(call.arg.command, call.arg.args)
       IN  result' = Returned(r.reason, r.ok)
    /\ UNCHANGED << call, spawned, written, sent, cwd, symlinks, regular_files,
                    db_connection, db_config, explicitly_disconnected,
                    failed_connect >>
    /\ UNCHANGED thread_vars

NextValidate == SubmitValidation \/ ValidatePath \/ ValidateCommand \/ Deliver

SpecValidate == Init /\ [][NextValidate]_vars

-----------------------------------------------------------------------------
(* What a call hands back: its report (kind, success), whether it raised   *)
(* instead of returning, and the state it leaves.                          *)

Ret(kind, success) ==
    [kind |-> kind, success |-> success, raised |-> FALSE,
     spawned |-> <<>>, written |-> {}, cwd |-> cwd,
     conn |-> db_connection, sent |-> <<>>, sections |-> <<>>,
     echoed |-> {}]

Raise(exception) == [Ret(exception, FALSE) EXCEPT !.raised = TRUE]

-----------------------------------------------------------------------------
(* The database session.                                                   *)

SqlKeywords ==
    { <<"S","E","L","E","C","T">>, <<"I","N","S","E","R","T">>,
      <<"U","P","D","A","T","E">>, <<"D","E","L","E","T","E">>,
      <<"S","H","O","W">>, <<"D","E","S","C","R","I","B","E">>,
      <<"C","R","E","A","T","E">>, <<"U","S","E">> }

\* query.strip().upper().startswith(keyword)
LeadsWith(query, keyword) == StartsWith(Upper(Strip(query)), keyword)

\* The outcomes of connect_to_db(): what it returns ("true", "false") or that it
\* raises, and the connection it leaves registered.
\*   - a psycopg2 connection has no is_connected(): AttributeError, which the
\*     handler for mysql.connector.Error does not catch;
\*   - ping(reconnect=True) on a connection that is not connected reopens it, or
\*     raises Error when the server cannot be reached.
connect_to_db ==
    IF db_connection.kind = "none"
    THEN { [ret |-> "false", conn |-> db_connection] }
    ELSE IF db_connection.kind = "postgresql"
    THEN { [ret |-> "raise", conn |-> db_connection] }
    ELSE IF db_connection.connected
    THEN { [ret |-> "true", conn |-> db_connection] }
    ELSE { [ret |-> "true", conn |-> [db_connection EXCEPT !.connected = TRUE]],
           [ret |-> "false", conn |-> NoConnection] }

\* one statement sent over a connection
Statement(query, conn) == [query |-> query, host |-> conn.host]

\* the reports of a statement that the backend executed without error
QueryReports(query) ==
    IF LeadsWith(query, <<"S","H","O","W">>)
    THEN { "No tables found", "Found tables" }
    ELSE IF LeadsWith(query, <<"D","E","S","C","R","I","B","E">>)
    THEN { "No tables found", "Table Structure" }
    ELSE IF LeadsWith(query, <<"S","E","L","E","C","T">>)
    THEN { "No rows returned", "Returned rows" }
    ELSE { "Affected rows" }

\* execute_query sending the statement a second time after the backend raised
execute_query_retries(query) ==
    UNION {
      IF c.ret = "false"
      THEN { [Ret("Not connected", FALSE) EXCEPT !.conn = c.conn] }
      ELSE IF c.ret = "raise"
      THEN { Raise("AttributeError") }
      ELSE LET stmts == << Statement(query, c.conn) >>
               Done(kind, success) ==
                   [Ret(kind, success) EXCEPT !.conn = c.conn, !.sent = stmts]
           IN  IF LeadsWith(query, <<"U","S","E">>)
               THEN { Done("Switched database", TRUE),
                      Done("Failed to switch database", FALSE) }
               ELSE { \* cursor() raised Error: nothing was sent
                      [Ret("Database Error", FALSE) EXCEPT !.conn = c.conn],
                      [Done("Database Error", FALSE) EXCEPT !.sent = stmts \o stmts] }
                    \cup { Done(kind, TRUE) : kind \in QueryReports(query) }
      : c \in connect_to_db }

execute_query(query) ==
    UNION {
      IF c.ret = "false"
      THEN { [Ret("Not connected", FALSE) EXCEPT !.conn = c.conn] }
      ELSE IF c.ret = "raise"
      THEN { Raise("AttributeError") }
      ELSE LET stmts == << Statement(query, c.conn) >>
               Done(kind, success) ==
                   [Ret(kind, success) EXCEPT !.conn = c.conn, !.sent = stmts]
           IN  IF LeadsWith(query, <<"U","S","E">>)
               THEN { Done("Switched database", TRUE),
                      Done("Failed to switch database", FALSE) }
               ELSE { \* cursor() raised Error: nothing was sent
                      [Ret("Database Error", FALSE) EXCEPT !.conn = c.conn],
                      Done("Database Error", FALSE) }
                    \cup { Done(kind, TRUE) : kind \in QueryReports(query) }
      : c \in connect_to_db }

-----------------------------------------------------------------------------
(* The process executor.                                                   *)

command_timeout == 300      \* subprocess.run(..., timeout=300)

\* a child process: its argument vector (the command line, when a shell
\* interprets it), its timeout in seconds (0: none) and how it ended: "0",
\* "nonzero", "timeout" (killed on expiry) or "never"
Child(argv, shell, timeout) ==
    [argv |-> argv, shell |-> shell, timeout |-> timeout, exit |-> "0"]

Ended(child, exit) == [child EXCEPT !.exit = exit]

\* subprocess.run of a child with a timeout, and how the handler reports it:
\* exit code 0, another exit code, expiry of the timeout (TimeoutExpired), or
\* the child could not be started (OSError)
Run(child, ok_kind, fail_kind) ==
    { [Ret(ok_kind, TRUE) EXCEPT !.spawned = << Ended(child, "0") >>],
      [Ret(fail_kind, FALSE) EXCEPT !.spawned = << Ended(child, "nonzero") >>],
      [Ret("Command timed out", FALSE) EXCEPT !.spawned = << Ended(child, "timeout") >>],
      Ret("Error", FALSE) }

Directories ==
    { <<"/","a","p","p">>,
      <<"/","a","p","p","/","t","e","s","t">>,
      <<"/","a","p","p","/","t","e","s","t","/","l","o","g","s">>,
      <<"/","a","p","p","/","t","e","s","t","2">>,
      <<"/","e","t","c">> }

\* os.chdir(path) followed by os.getcwd(): the symlink-resolved directory, or
\* <<>> when there is no such directory (chdir raises)
chdir(path) ==
    LET real == Slash \o Join(real_components(path, symlinks), Slash)
    IN  IF real \in Directories THEN real ELSE <<>>

cd(command_args) ==
    IF Len(command_args) = 0
    THEN { [Ret("Changed directory", TRUE) EXCEPT !.cwd = working_directory] }
    ELSE IF Len(command_args) = 1
    THEN LET new_path == abspath(path_join(cwd, command_args[1]))
         IN  IF ~StartsWith(new_path, working_directory)
             THEN { Ret("Access denied", FALSE) }
             ELSE IF chdir(new_path) = <<>>
                  THEN { Ret("Error", FALSE) }
                  ELSE { [Ret("Changed directory", TRUE) EXCEPT !.cwd = chdir(new_path)] }
    ELSE { Ret("Too many arguments for cd command", FALSE) }

\* f"python -c 'import {p}; print(f\"{p} version: \" + {p}.__version__)'"
verify_cmd(package_name) ==
    <<"p","y","t","h","o","n"," ","-","c"," ","'","i","m","p","o","r","t"," ">>
    \o package_name \o <<";"," ","p","r","i","n","t","(","f","\"">>
    \o package_name \o <<" ","v","e","r","s","i","o","n",":"," ","\""," ","+"," ">>
    \o package_name \o <<".","_","_","v","e","r","s","i","o","n","_","_",")","'">>

\* the branch for an instruction that starts with "pip install": the install,
\* then the import of the package through a shell, which has no timeout and
\* so may never return
pip_install_and_verify(command, command_args) ==
    LET install == Child(<<command>> \o command_args, FALSE, command_timeout)
        package_name == IF Len(command_args) > 1 THEN command_args[2] ELSE <<>>
        verify == Child(<<verify_cmd(package_name)>>, TRUE, 0)
        Verified(kind, success, exit) ==
            [Ret(kind, success) EXCEPT
                !.spawned = << Ended(install, "0"), Ended(verify, exit) >>]
    IN  { Verified("Package installed and verified", TRUE, "0"),
          Verified("Package installed but verification failed", FALSE, "nonzero"),
          Verified("never returns", FALSE, "never") }
        \cup { [Ret("Package installation failed", FALSE) EXCEPT
                    !.spawned = << Ended(install, "nonzero") >>],
                 [Ret("Command timed out", FALSE) EXCEPT
                    !.spawned = << Ended(install, "timeout") >>],
                 Ret("Error", FALSE) }

\* the branch for an instruction that starts with "echo" and holds a ">"
echo_redirect(command_str) ==
    LET echo_cmd == Strip(SplitHead(command_str, <<">">>))
        file_part == LStripChar(Strip(SplitRest(command_str, <<">">>)), ">")
        content == StripChar(StripChar(Strip(DropFirst(echo_cmd, 5)), "\""), "'")
        filename == Strip(file_part)
        file_path == path_join(working_directory, filename)
    IN  { Ret("Error", FALSE) }    \* open() raised
        \cup IF abspath(file_path) \in Directories
             THEN {}    \* a directory: open() always raises
             ELSE { [Ret("File overwritten", TRUE) EXCEPT
                        !.written = { [path |-> file_path, content |-> content] }] }

\* the validated install: python -m pip <args>
pip_install(command, command_args) ==
    LET v == validate_pip_command(command_args)
        python_cmd == IF command = <<"p","i","p">>
                      THEN <<"p","y","t","h","o","n">>
                      ELSE <<"p","y","t","h","o","n","3">>
    IN  IF ~v.ok THEN { Ret(v.reason, FALSE) }
        ELSE Run(Child(<<python_cmd, <<"-","m">>, <<"p","i","p">>>> \o command_args,
                       FALSE, command_timeout),
                 "Successfully installed package(s)", "Package installation failed")

\* regular command validation and execution
run_validated(command, command_args) ==
    LET v == validate_command(command, command_args)
    IN  IF ~v.ok THEN { Ret(v.reason, FALSE) }
        ELSE Run(Child(<<command>> \o command_args, FALSE, command_timeout),
                 "stdout", "stderr")

execute_command(command_str) ==
    IF \E keyword \in SqlKeywords : LeadsWith(command_str, keyword)
    THEN { IF r.raised THEN [Ret("Error", FALSE) EXCEPT !.conn = r.conn] ELSE r :
           r \in execute_query(command_str) }
    ELSE
    LET args == shlex_split(command_str)
        command == args[1]
        command_args == Tail(args)
        stripped == Strip(command_str)
    IN  IF args = <<>> THEN { Ret("Empty command", FALSE) }
        ELSE IF command = <<"c","d">> THEN cd(command_args)
        ELSE IF \/ StartsWith(stripped, <<"p","y","t","h","o","n"," ","-","c">>)
                \/ StartsWith(stripped, <<"p","y","t","h","o","n","3"," ","-","c">>)
        THEN Run(Child(<<command>> \o command_args, FALSE, command_timeout),
                 "stdout", "stderr")
        ELSE IF \/ StartsWith(stripped, <<"p","i","p"," ","i","n","s","t","a","l","l">>)
                \/ StartsWith(stripped, <<"p","i","p","3"," ","i","n","s","t","a","l","l">>)
        THEN pip_install_and_verify(command, command_args)
        ELSE IF /\ StartsWith(stripped, <<"e","c","h","o">>)
                /\ Contains(command_str, <<">">>)
        THEN echo_redirect(command_str)
        ELSE IF IsPipInstall(command, command_args)
        THEN pip_install(command, command_args)
        ELSE IF IsPython(command) /\ Len(command_args) > 0
        THEN \* os.path.exists(script_path): the script is missing, or it is there
             { Ret("File not found", FALSE) }
             \cup run_validated(command,
                     << path_join(working_directory, command_args[1]) >>
                     \o Tail(command_args))
        ELSE run_validated(command, command_args)

-----------------------------------------------------------------------------
(* The loop engine.                                                        *)

loop_timeout == 30          \* subprocess.run(..., timeout=30)

Digits == << "0", "1", "2", "3", "4", "5", "6", "7", "8", "9" >>

IsDigit(c) == \E i \in 1..10 : Digits[i] = c

DigitValue(c) == (CHOOSE i \in 1..10 : Digits[i] = c) - 1

\* int(s) for a stripped s of digits; -1 stands for ValueError
RECURSIVE ParseDigits(_, _)
ParseDigits(s, acc) ==
    IF s = <<>> THEN acc
    ELSE IF IsDigit(Head(s)) THEN ParseDigits(Tail(s), 10 * acc + DigitValue(Head(s)))
    ELSE -1

int(s) == IF s = <<>> THEN -1 ELSE ParseDigits(s, 0)

\* str(n) for n >= 0
RECURSIVE str(_)
str(n) == IF n < 10 THEN << Digits[n + 1] >> ELSE str(n \div 10) \o << Digits[(n % 10) + 1] >>

Min(a, b) == IF a <= b THEN a ELSE b

LIMIT == <<"L","I","M","I","T">>

\* one labelled section of a loop report
Section(member, report, rows) == [member |-> member, report |-> report, rows |-> rows]

\* file_runs leaving the loop at the first file whose child fails
RECURSIVE file_runs_stops_at_failure(_, _, _)
file_runs_stops_at_failure(files, command, command_args) ==
    IF files = <<>> THEN { [sections |-> <<>>, spawned |-> <<>>] }
    ELSE LET file == Head(files)
             file_path == path_join(working_directory, file)
             child == Child(<<command>> \o command_args \o <<file_path>>,
                            FALSE, loop_timeout)
             rests == file_runs_stops_at_failure(Tail(files), command, command_args)
         IN  { [sections |-> << Section(file, "output", 0) >> \o rest.sections,
                spawned |-> << Ended(child, "0") >> \o rest.spawned] :
               rest \in rests }
             \cup { [sections |-> << Section(file, "Error", 0) >>,
                     spawned |-> << Ended(child, "nonzero") >>],
                    [sections |-> << Section(file, "Error processing", 0) >>,
                     spawned |-> << Ended(child, "timeout") >>],
                    [sections |-> << Section(file, "Error processing", 0) >>,
                     spawned |-> <<>>] }

\* The per-file runs of a FILE loop, in enumeration order: each file's child
\* exits with 0, exits with another code, times out, or cannot be started; the
\* last two raise inside the per-file try, which records them and goes on.
RECURSIVE file_runs(_, _, _)
file_runs(files, command, command_args) ==
    IF files = <<>> THEN { [sections |-> <<>>, spawned |-> <<>>] }
    ELSE LET file == Head(files)
             file_path == path_join(working_directory, file)
             child == Child(<<command>> \o command_args \o <<file_path>>,
                            FALSE, loop_timeout)
             here == { [section |-> Section(file, "output", 0),
                        spawned |-> << Ended(child, "0") >>],
                       [section |-> Section(file, "Error", 0),
                        spawned |-> << Ended(child, "nonzero") >>],
                       [section |-> Section(file, "Error processing", 0),
                        spawned |-> << Ended(child, "timeout") >>],
                       [section |-> Section(file, "Error processing", 0),
                        spawned |-> <<>>] }
         IN  { [sections |-> <<h.section>> \o rest.sections,
                spawned |-> h.spawned \o rest.spawned] :
               h \in here, rest \in file_runs(Tail(files), command, command_args) }

\* The per-table statements of a TABLE loop.  A table holds `rows` rows; a
\* statement that raises ends the loop in the outer handler.  `limit` is -1
\* when the operation names none.
RECURSIVE table_runs(_, _, _, _, _)
table_runs(tables, operation, limit, rows, conn) ==
    IF tables = <<>> THEN { [sections |-> <<>>, sent |-> <<>>, failed |-> FALSE] }
    ELSE LET table == Head(tables)
             query ==
                 IF operation = <<"S","H","O","W">>
                 THEN <<"S","E","L","E","C","T"," ","*"," ","F","R","O","M"," ">>
                      \o table
                      \o (IF limit > 0
                          THEN <<" ","L","I","M","I","T"," ">> \o str(limit)
                          ELSE <<>>)
                 ELSE IF operation = <<"C","O","U","N","T">>
                 THEN <<"S","E","L","E","C","T"," ","C","O","U","N","T","(","*",")",
                        " ","a","s"," ","c","o","u","n","t"," ","F","R","O","M"," ">>
                      \o table
                 ELSE IF operation = <<"D","E","S","C","R","I","B","E">>
                 THEN <<"D","E","S","C","R","I","B","E"," ">> \o table
                 ELSE <<>>
             returned == IF operation = <<"S","H","O","W">>
                         THEN (IF limit > 0 THEN Min(rows, limit) ELSE rows)
                         ELSE 0
             section == Section(table, operation, returned)
         IN  IF query = <<>>
             THEN table_runs(Tail(tables), operation, limit, rows, conn)
             ELSE { [sections |-> <<>>, sent |-> << Statement(query, conn) >>,
                     failed |-> TRUE] }
                  \cup { [sections |-> <<section>> \o rest.sections,
                          sent |-> << Statement(query, conn) >> \o rest.sent,
                          failed |-> rest.failed] :
                         rest \in table_runs(Tail(tables), operation, limit, rows, conn) }

\* SHOW TABLES: the tables of the connected database
TableListings == { <<>>, << <<"t","1">> >>, << <<"t","1">>, <<"t","2">> >> }

MaxRows == 2        \* rows a table holds

execute_loop_file(operation) ==
    LET files == regular_files
    IN  IF files = <<>> THEN { Ret("No files found in current directory", FALSE) }
        ELSE LET cmd_parts == shlex_split(operation)
                 command == cmd_parts[1]
                 command_args == Tail(cmd_parts)
             IN  IF cmd_parts = <<>>
                 THEN { Ret("Error executing loop", FALSE) }    \* IndexError
                 ELSE IF command \notin command_names
                 THEN { Ret("Command is not allowed", FALSE) }
                 ELSE { [Ret("Loop report", TRUE) EXCEPT
                            !.spawned = r.spawned, !.sections = r.sections] :
                        r \in file_runs(files, command, command_args) }

execute_loop_table(operation) ==
    UNION {
      IF c.ret = "false"
      THEN { [Ret("Failed to connect to database", FALSE) EXCEPT !.conn = c.conn] }
      ELSE IF c.ret = "raise"
      THEN { Ret("Error executing loop", FALSE) }    \* AttributeError
      ELSE LET show_tables ==
                   << Statement(<<"S","H","O","W"," ","T","A","B","L","E","S">>, c.conn) >>
               Done(kind, success) ==
                   [Ret(kind, success) EXCEPT !.conn = c.conn, !.sent = show_tables]
               has_limit == Contains(operation, LIMIT)
               op == IF has_limit THEN Strip(SplitHead(operation, LIMIT)) ELSE operation
               \* operation.split("LIMIT")[1]: up to the next LIMIT, if any
               limit == IF has_limit
                        THEN int(Strip(SplitHead(SplitRest(operation, LIMIT), LIMIT)))
                        ELSE -1
           IN  { [Ret("Error executing loop", FALSE) EXCEPT !.conn = c.conn],
                 Done("Error executing loop", FALSE),
                 Done("No tables found in database", FALSE) }
               \cup
               UNION {
                 IF has_limit /\ limit = -1
                 THEN { Done("Invalid LIMIT value", FALSE) }
                 ELSE { IF r.failed
                        THEN [Done("Error executing loop", FALSE) EXCEPT
                                 !.sent = show_tables \o r.sent]
                        ELSE [Done("Loop report", TRUE) EXCEPT
                                 !.sent = show_tables \o r.sent,
                                 !.sections = r.sections] :
                        r \in UNION { table_runs(tables, op, limit, rows, c.conn) :
                                      rows \in 0..MaxRows } }
                 : tables \in TableListings \ { <<>> } }
      : c \in connect_to_db }

execute_loop(loop_type, operation) ==
    IF loop_type = "FILE" THEN execute_loop_file(operation)
    ELSE IF loop_type = "TABLE" THEN execute_loop_table(operation)
    ELSE { Ret("Invalid loop type", FALSE) }

-----------------------------------------------------------------------------
(* The connection manager.                                                 *)

Absent == "<absent>"

\* connection_details.get('type', 'mysql').lower()
lower(type) ==
    IF type = Absent THEN "mysql"
    ELSE IF type = "MYSQL" THEN "mysql"
    ELSE type

\* required_params - set(connection_details.keys())
missing_params(details) ==
    { k \in {"type", "host", "user", "password"} : details[k] = Absent }

Registered(kind, host) == [kind |-> kind, connected |-> TRUE, host |-> host]

\* the values of connection_details that f"{connection_details}" prints
Received(details) ==
    { details[k] : k \in { f \in DOMAIN details : details[f] # Absent } }

\* connect_attempt without the close of the connection already registered
connect_attempt_keeps_open(details) ==
    LET db_type == lower(details.type)
        \* if self.db_connection and self.db_connection.is_connected(): close()
        closed == db_connection
        \* the report, with the values of connection_details its text holds
        Report(kind, success, conn, config, registered, echoed) ==
            [out |-> [Ret(kind, success) EXCEPT !.conn = conn, !.echoed = echoed],
             config |-> config, registered |-> registered]
        Opened(conn) ==
            IF conn.kind = "mysql"
            THEN { Report("Connection Status: Success", TRUE, conn, details, TRUE,
                          {db_type, details.host, details.user}),
                   Report("Connection Warning", FALSE, conn, details, TRUE, {}),
                   \* is_connected() is false right after connect()
                   Report("Connection Status: Failed", FALSE,
                          [conn EXCEPT !.connected = FALSE], details, TRUE,
                          {details.host}) }
            ELSE \* a psycopg2 connection has no is_connected attribute
                 { Report("Connection Status: Failed", FALSE, conn, details, TRUE,
                          {details.host}) }
    IN  IF db_connection.kind = "postgresql"
        THEN \* is_connected() raises AttributeError: the outer handler
             { Report("Unexpected Error", FALSE, db_connection, db_config, FALSE,
                      {}) }
        ELSE IF missing_params(details) # {}
        THEN \* "... Received: {connection_details}"
             { Report("Connection Failed: missing parameters", FALSE,
                      closed, db_config, FALSE, Received(details)) }
        ELSE IF db_type \in {"mysql", "postgresql"}
        THEN { Report("Connection Error", FALSE, closed, db_config, FALSE,
                      {db_type, details.host, details.user}) }
             \cup Opened(Registered(db_type, details.host))
        ELSE { Report("Unsupported database type", FALSE, closed, db_config, FALSE,
                      {db_type}) }

\* connect_to_new_database(connection_details), once the docker network is
\* there.  Each outcome carries the stored config and whether the attempt
\* registered a connection object.
connect_attempt(details) ==
    LET db_type == lower(details.type)
        \* if self.db_connection and self.db_connection.is_connected(): close()
        closed == IF db_connection.kind = "mysql"
                  THEN [db_connection EXCEPT !.connected = FALSE]
                  ELSE db_connection
        \* the report, with the values of connection_details its text holds
        Report(kind, success, conn, config, registered, echoed) ==
            [out |-> [Ret(kind, success) EXCEPT !.conn = conn, !.echoed = echoed],
             config |-> config, registered |-> registered]
        Opened(conn) ==
            IF conn.kind = "mysql"
            THEN { Report("Connection Status: Success", TRUE, conn, details, TRUE,
                          {db_type, details.host, details.user}),
                   Report("Connection Warning", FALSE, conn, details, TRUE, {}),
                   \* is_connected() is false right after connect()
                   Report("Connection Status: Failed", FALSE,
                          [conn EXCEPT !.connected = FALSE], details, TRUE,
                          {details.host}) }
            ELSE \* a psycopg2 connection has no is_connected attribute
                 { Report("Connection Status: Failed", FALSE, conn, details, TRUE,
                          {details.host}) }
    IN  IF db_connection.kind = "postgresql"
        THEN \* is_connected() raises AttributeError: the outer handler
             { Report("Unexpected Error", FALSE, db_connection, db_config, FALSE,
                      {}) }
        ELSE IF missing_params(details) # {}
        THEN \* "... Received: {connection_details}"
             { Report("Connection Failed: missing parameters", FALSE,
                      closed, db_config, FALSE, Received(details)) }
        ELSE IF db_type \in {"mysql", "postgresql"}
        THEN { Report("Connection Error", FALSE, closed, db_config, FALSE,
                      {db_type, details.host, details.user}) }
             \cup Opened(Registered(db_type, details.host))
        ELSE { Report("Unsupported database type", FALSE, closed, db_config, FALSE,
                      {db_type}) }

connect_to_new_database(details) ==
    { [out |-> Ret("Failed to setup Docker network", FALSE),
       config |-> db_config, registered |-> FALSE, thread |-> "none"] }
    \cup \* loading_thread.start() raised RuntimeError: the outer handler makes
         \* the Unexpected Error report, then loading_thread.join() in the
         \* finally clause raises RuntimeError for a thread that never started
         { [out |-> Raise("RuntimeError"),
            config |-> db_config, registered |-> FALSE, thread |-> "created"] }
    \cup { [out |-> r.out, config |-> r.config, registered |-> r.registered,
            thread |-> "running"] : r \in connect_attempt(details) }

\* disconnect_database(): its report, the connection left registered
disconnect_database ==
    IF db_connection.kind = "none"
    THEN { Ret("Disconnect Status: No action needed (no active connection)", TRUE) }
    ELSE IF db_connection.kind = "postgresql"
    THEN { Raise("AttributeError") }
    ELSE IF db_connection.connected
    THEN { [Ret("Disconnect Status: Success", TRUE) EXCEPT !.conn = NoConnection],
           \* close() raised Error
           [Ret("Disconnect Warning", TRUE) EXCEPT !.conn = NoConnection] }
    ELSE { Ret("Disconnect Status: No action needed (already closed)", TRUE) }

-----------------------------------------------------------------------------
(* The session: one action per method of the agent, and the environment.   *)

\* the state a call leaves
ReportOf(out) ==
    [kind |-> out.kind, success |-> out.success,
     raised |-> out.raised, sections |-> out.sections,
     echoed |-> out.echoed]

Effects(out) ==
    /\ UNCHANGED call
    /\ spawned' = out.spawned
    /\ written' = out.written
    /\ sent' = out.sent
    /\ cwd' = out.cwd
    /\ db_connection' = out.conn
    /\ UNCHANGED << symlinks, regular_files >>

Apply(out) ==
    /\ result' = ReportOf(out)
    /\ Effects(out)

Blanks(n) == [i \in 1..n |-> " "]

PkgTokens == { <<"r","e","q","u","e","s","t","s","=","=","1">>, <<"e","v","i","l">> }

PipInstructions ==
    { exe \o Blanks(n) \o Join(<<sub>> \o pkgs, <<" ">>) :
        exe \in { <<"p","i","p">>, <<"p","i","p","3">> },
        n \in 1..MaxSpaces,
        sub \in { <<"i","n","s","t","a","l","l">>,
                  <<"u","n","i","n","s","t","a","l","l">> },
        pkgs \in SeqsUpTo(PkgTokens, MaxPkgs) }

ShellExecs ==
    { <<"l","s">>, <<"r","m">>, <<"e","c","h","o">>, <<"e","c","h","o","x">>,
      <<"p","y","t","h","o","n">>, <<"c","d">> }

ShellTokens ==
    { <<"-","c">>, <<".",".">>, <<"l","o","g","s">>, <<"d","a","t","a">>, <<">">>,
      <<".",".","/","t","e","s","t","2">>, <<"l","i","n","k">>,
      <<".",".","/","x">> }

ShellInstructions ==
    { Join(<<exe>> \o args, <<" ">>) :
        exe \in ShellExecs, args \in SeqsUpTo(ShellTokens, MaxShellArgs) }

Queries ==
    { <<"s","e","l","e","c","t"," ","1">>, <<"i","n","s","e","r","t"," ","x">>,
      <<"u","s","e"," ","d","b">>, <<"s","h","o","w"," ","t","a","b","l","e","s">> }

Instructions == PipInstructions \cup ShellInstructions \cup Queries

\* the instructions of a database session
SessionInstructions ==
    Queries \cup { <<"l","s">>, <<"p","i","p"," ","l","i","s","t">> }

FileOperations ==
    { <<"c","a","t">>, <<"w","c"," ","-","l">>, <<"l","s"," ","-","z">>,
      <<"r","m">>, <<>> }

TableOperations ==
    { <<"S","H","O","W">>, <<"S","H","O","W"," ","L","I","M","I","T"," ","1">>,
      <<"S","H","O","W"," ","L","I","M","I","T"," ","0">>,
      <<"S","H","O","W"," ","L","I","M","I","T"," ","x">>,
      <<"C","O","U","N","T">>, <<"C","O","U","N","T"," ","L","I","M","I","T"," ","1">>,
      <<"D","E","S","C","R","I","B","E">>, <<"D","R","O","P">> }

LoopDirectives ==
    { [loop_type |-> "FILE", operation |-> o] : o \in FileOperations }
    \cup { [loop_type |-> "TABLE", operation |-> o] : o \in TableOperations }
    \cup { [loop_type |-> "DIR", operation |-> <<"c","a","t">>] }

ConnectionDetails ==
    [type : {"mysql", "MYSQL", "postgresql", "sqlite", Absent},
     host : {"A", "B"},
     user : {"root"},
     password : {"secret", Absent},
     database : {Absent}]

SubmitInstruction ==
    /\ result = Idle
    /\ \E command_str \in Instructions : Submit("execute_command", command_str)

SubmitSessionCall ==
    /\ result = Idle
    /\ \/ \E command_str \in SessionInstructions :
             Submit("execute_command", command_str)
       \/ \E query \in Queries : Submit("execute_query", query)
       \/ \E d \in LoopDirectives : Submit("execute_loop", d)
       \/ \E details \in ConnectionDetails :
             Submit("connect_to_new_database", details)
       \/ Submit("disconnect_database", <<>>)

ExecuteCommand ==
    /\ Called("execute_command")
    /\ \E out \in execute_command(call.arg) : Apply(out)
    /\ UNCHANGED << db_config, explicitly_disconnected,
                    failed_connect >>
    /\ UNCHANGED thread_vars

ExecuteQuery ==
    /\ Called("execute_query")
    /\ \E out \in execute_query(call.arg) : Apply(out)
    /\ UNCHANGED << db_config, explicitly_disconnected,
                    failed_connect >>
    /\ UNCHANGED thread_vars

ExecuteLoop ==
    /\ Called("execute_loop")
    /\ \E out \in execute_loop(call.arg.loop_type, call.arg.operation) : Apply(out)
    /\ UNCHANGED << db_config, explicitly_disconnected,
                    failed_connect >>
    /\ UNCHANGED thread_vars

\* the reports of a connect that failed on a missing parameter, an
\* unsupported type or a backend error
ConnectFailures ==
    { "Connection Failed: missing parameters", "Unsupported database type",
      "Connection Error" }

\* connect_to_new_database up to loading_thread.join() in its finally clause:
\* with the thread running the call waits there, holding its report
ConnectToNewDatabase ==
    /\ Called("connect_to_new_database")
    /\ joining = <<>>
    /\ \E r \in connect_to_new_database(call.arg) :
          /\ Effects(r.out)
          /\ db_config' = r.config
          /\ explicitly_disconnected' =
                IF r.registered THEN FALSE ELSE explicitly_disconnected
          /\ failed_connect' =
                IF r.registered THEN FALSE
                ELSE IF /\ db_connection.connected
                        /\ r.out.kind \in ConnectFailures
                     THEN TRUE
                     ELSE failed_connect
          /\ loading_thread' = r.thread
          /\ stop_loading' = (r.thread # "none")
          /\ IF r.thread = "running"
             THEN joining' = << ReportOf(r.out) >> /\ UNCHANGED result
             ELSE result' = ReportOf(r.out) /\ UNCHANGED joining

\* show_loading_animation: the loop sees the stop event and the thread ends
ShowLoadingAnimationEnds ==
    /\ loading_thread = "running"
    /\ stop_loading
    /\ loading_thread' = "terminated"
    /\ UNCHANGED << call, result, spawned, written, sent, cwd, symlinks, regular_files,
                    db_connection, db_config, explicitly_disconnected,
                    failed_connect, stop_loading, joining >>

\* loading_thread.join() returns once the thread has ended, and
\* connect_to_new_database returns its report
JoinLoadingThread ==
    /\ joining # <<>>
    /\ loading_thread = "terminated"
    /\ result' = joining[1]
    /\ joining' = <<>>
    /\ UNCHANGED << call, spawned, written, sent, cwd, symlinks, regular_files,
                    db_connection, db_config, explicitly_disconnected,
                    failed_connect, loading_thread, stop_loading >>

DisconnectDatabase ==
    /\ Called("disconnect_database")
    /\ \E out \in disconnect_database :
          /\ Apply(out)
          /\ explicitly_disconnected' =
                IF out.raised THEN explicitly_disconnected ELSE TRUE
    /\ UNCHANGED failed_connect
    /\ UNCHANGED db_config
    /\ UNCHANGED thread_vars

\* the server drops the connection (idle timeout, restart): is_connected()
\* reports false from then on
ConnectionLost ==
    /\ result = Idle
    /\ db_connection.kind = "mysql"
    /\ db_connection.connected
    /\ db_connection' = [db_connection EXCEPT !.connected = FALSE]
    /\ UNCHANGED << call, result, spawned, written, sent, cwd, symlinks, regular_files,
                    db_config, explicitly_disconnected,
                    failed_connect >>
    /\ UNCHANGED thread_vars

Next ==
    \/ SubmitSessionCall
    \/ ExecuteCommand
    \/ ExecuteQuery
    \/ ExecuteLoop
    \/ ConnectToNewDatabase
    \/ ShowLoadingAnimationEnds
    \/ JoinLoadingThread
    \/ DisconnectDatabase
    \/ ConnectionLost
    \/ Deliver

Spec == Init /\ [][Next]_vars

NextShell == SubmitInstruction \/ ExecuteCommand \/ Deliver

SpecShell == Init /\ [][NextShell]_vars

-----------------------------------------------------------------------------
(* The claims.                                                             *)

\* the handler of the outstanding call has run
Handled == result.kind \notin {"idle", "pending"}

Handled_(op) == call.op = op /\ Handled

\* the tokens of the instruction handed to execute_command
Tokens == shlex_split(call.arg)

IsSqlInstruction == \E keyword \in SqlKeywords : LeadsWith(call.arg, keyword)

Install == <<"i","n","s","t","a","l","l">>

\* a pip/pip3 install instruction that names a package outside the allowlist
NamesForbiddenPackage ==
    /\ Len(Tokens) >= 3
    /\ Tokens[1] \in { <<"p","i","p">>, <<"p","i","p","3">> }
    /\ Tokens[2] = Install
    /\ \E i \in 3..Len(Tokens) :
          /\ Tokens[i][1] # "-"
          /\ base_package(Tokens[i]) \notin allowed_packages

\* C1: a pip/pip3 install instruction that names a package outside the
\* allowlist returns success=false and starts no child process, whatever the
\* whitespace of the instruction.
C1_InstallOnlyAllowlisted ==
    (Handled_("execute_command") /\ NamesForbiddenPackage)
        => (~result.success /\ spawned = <<>>)

\* C2: validate_path(p) is true if and only if p, resolved against the sandbox
\* root, is the root or a descendant of it.
C2_PathContainment ==
    Handled_("validate_path")
        => (result.success <=>
              Contained(abs_components(path_join(working_directory, call.arg))))

\* C3: validate_path rejects a path that lies lexically inside the sandbox root
\* but is, or passes through, a symbolic link whose target is outside of it.
C3_SymlinkEscapeRejected ==
    (/\ Handled_("validate_path")
     /\ Contained(abs_components(path_join(working_directory, call.arg)))
     /\ ~Contained(real_components(path_join(working_directory, call.arg), symlinks)))
        => ~result.success

\* C4: an executable that is no key of the rule registry is refused by
\* validate_command whatever its arguments, and a shell instruction with such
\* an executable returns success=false and starts no child process.
C4_UnknownCommandRejected ==
    /\ (Handled_("validate_command") /\ call.arg.command \notin command_names)
          => ~result.success
    /\ (/\ Handled_("execute_command")
        /\ ~IsSqlInstruction
        /\ Tokens # <<>>
        /\ Tokens[1] \notin command_names)
          => (~result.success /\ spawned = <<>>)

\* C5: for a registered command and arguments outside the raw-code and
\* package-install carve-outs, validate_command fails when some flag argument
\* is not in allowed_flags, and succeeds when every flag is in allowed_flags,
\* the positional arguments are at most max_args and each of them passes the
\* path containment check.
C5_FlagsArityPaths ==
    (/\ Handled_("validate_command")
     /\ call.arg.command \in command_names
     /\ ~IsRawCode(call.arg.command, call.arg.args)
     /\ ~IsPipInstall(call.arg.command, call.arg.args))
        => LET command == call.arg.command
               args == call.arg.args
               flag_at == { i \in 1..Len(args) : args[i][1] = "-" }
               positional_at == (1..Len(args)) \ flag_at
               flags_allowed ==
                   \A i \in flag_at : args[i] \in allowed_flags(command)
           IN  /\ ~flags_allowed => ~result.success
               /\ (/\ flags_allowed
                   /\ Cardinality(positional_at) <= max_args(command)
                   /\ \A i \in positional_at : validate_path(args[i]))
                      => result.success

\* a call of validate_command that the generic rules accept: an allowed flag
\* and a contained path
C5_Witness ==
    /\ Handled_("validate_command")
    /\ call.arg.command = <<"l","s">>
    /\ call.arg.args = << <<"-","l">>, <<"d","a","t","a">> >>
    /\ result.success

\* C6: a pip/pip3 invocation whose sub-command is not install, list, freeze
\* or --version is refused by validation and never run as a child process.
C6_PipSubcommandRejected ==
    /\ (/\ Handled_("validate_command")
        /\ IsPip(call.arg.command)
        /\ call.arg.args # <<>>
        /\ call.arg.args[1] \notin { Install, <<"l","i","s","t">>,
                                     <<"f","r","e","e","z","e">>,
                                     <<"-","-","v","e","r","s","i","o","n">> })
          => ~result.success
    /\ (/\ Handled_("execute_command")
        /\ Len(Tokens) >= 2
        /\ IsPip(Tokens[1])
        /\ Tokens[2] \notin { Install, <<"l","i","s","t">>,
                              <<"f","r","e","e","z","e">>,
                              <<"-","-","v","e","r","s","i","o","n">> })
          => (~result.success /\ spawned = <<>>)

\* C7: every child process of an instruction is started from an argument
\* vector, never through a shell.
C7_NoShellInterpretation ==
    Handled_("execute_command")
        => \A i \in 1..Len(spawned) : ~spawned[i].shell

\* C8: every child process of an instruction has a timeout and none runs on
\* without end; a child killed on expiry makes execute_command return
\* success=false with the timed-out report.
C8_ChildrenBounded ==
    Handled_("execute_command")
        => \A i \in 1..Len(spawned) :
              /\ spawned[i].timeout > 0
              /\ spawned[i].exit # "never"
              /\ spawned[i].exit = "timeout"
                    => (result.kind = "Command timed out" /\ ~result.success)

\* a query entry point: execute_query, an SQL instruction, the TABLE loop
IsQueryCall ==
    \/ call.op = "execute_query"
    \/ call.op = "execute_command" /\ IsSqlInstruction
    \/ call.op = "execute_loop" /\ call.arg.loop_type = "TABLE"

\* C9: while the session is Disconnected (no connection was registered since
\* construction or since disconnect_database returned), every query fails as
\* not connected, with nothing sent and no connection opened or revived.
C9_NoImplicitReconnect ==
    (Handled /\ IsQueryCall /\ explicitly_disconnected)
        => /\ ~result.success
           /\ result.kind \in {"Not connected", "Failed to connect to database"}
           /\ sent = <<>>
           /\ ~db_connection.connected

\* C10: after connect_to_new_database failed because the backend could not be
\* reached, the session holds no connection that is connected.
C10_FailedConnectNotConnected ==
    (Handled_("connect_to_new_database") /\ result.kind = "Connection Error")
        => ~db_connection.connected

\* a connection error met while an earlier connection was registered
C10_Witness ==
    /\ Handled_("connect_to_new_database")
    /\ result.kind = "Connection Error"
    /\ db_connection.kind = "mysql"
    /\ db_connection.host # call.arg.host

\* C11: whatever way connect_to_new_database ends, the report it returns
\* does not hold the password that came with the connection details.
C11_ReportWithoutPassword ==
    (Handled_("connect_to_new_database") /\ call.arg.password # Absent)
        => call.arg.password \notin result.echoed

\* C12: after disconnect_database closed a live connection and reported
\* success, the stored connection config holds no password.
C12_DisconnectClearsCredentials ==
    (Handled_("disconnect_database")
     /\ result.kind = "Disconnect Status: Success")
        => ("password" \notin DOMAIN db_config \/ db_config.password = Absent)

\* the progress-indicator thread of the call was created
ThreadCreated == loading_thread # "none"

\* C13: when connect_to_new_database has come back after it created the
\* progress-indicator thread, the stop event is set, the thread has ended
\* (it was joined) and the call returned: its cleanup did not raise.
C13_LoadingThreadJoined ==
    (Handled_("connect_to_new_database") /\ ThreadCreated)
        => (stop_loading /\ loading_thread = "terminated" /\ ~result.raised)

\* C13 on the paths where loading_thread.start() started the thread
C13_StartedThreadJoined ==
    (Handled_("connect_to_new_database") /\ ThreadCreated
     /\ loading_thread # "created")
        => (stop_loading /\ loading_thread = "terminated" /\ ~result.raised)

\* C14: execute_query, and the instructions and loops that run queries or
\* commands, hand every failure back as a report with success=false; none of
\* them raises to its caller, whatever the backend of the connection.
C14_NoExceptionEscapes ==
    (Handled /\ call.op \in {"execute_query", "execute_command", "execute_loop"})
        => ~result.raised

\* the operation of a TABLE loop once a LIMIT suffix is taken off
TableOperation ==
    IF Contains(call.arg.operation, LIMIT)
    THEN Strip(SplitHead(call.arg.operation, LIMIT))
    ELSE call.arg.operation

TableLoopOperations ==
    { <<"S","H","O","W">>, <<"C","O","U","N","T">>,
      <<"D","E","S","C","R","I","B","E">> }

\* C15: a TABLE loop whose operation is not SHOW, COUNT or DESCRIBE returns
\* success=false.
C15_InvalidTableOperationFails ==
    (/\ Handled_("execute_loop")
     /\ call.arg.loop_type = "TABLE"
     /\ TableOperation \notin TableLoopOperations)
        => ~result.success

\* the position of a file path in the enumeration of the working directory
FileIndex(file_path) ==
    CHOOSE k \in 1..Len(regular_files) :
        path_join(working_directory, regular_files[k]) = file_path

\* C16: a FILE loop over a non-empty directory with a registered command
\* appends one section per file in enumeration order, whatever happened to
\* the files before it, and starts at most one child per file, in that order,
\* with the file's path as last argument; every file whose section shows
\* output or an exit code had its child.  Over an empty directory the loop
\* returns success=false and starts no child.
C16_FileLoopVisitsEveryFile ==
    (Handled_("execute_loop") /\ call.arg.loop_type = "FILE")
        => LET cmd_parts == shlex_split(call.arg.operation)
               file_path(k) == path_join(working_directory, regular_files[k])
               argv(k) == cmd_parts \o << file_path(k) >>
           IN  /\ regular_files = <<>> => (~result.success /\ spawned = <<>>)
               /\ (/\ regular_files # <<>>
                   /\ cmd_parts # <<>>
                   /\ cmd_parts[1] \in command_names)
                     => /\ result.success
                        /\ Len(result.sections) = Len(regular_files)
                        /\ \A k \in 1..Len(regular_files) :
                              /\ result.sections[k].member = regular_files[k]
                              /\ result.sections[k].report \in {"output", "Error"}
                                    => \E i \in 1..Len(spawned) :
                                          spawned[i].argv = argv(k)
                        /\ \A i \in 1..Len(spawned) :
                              \E k \in 1..Len(regular_files) :
                                  spawned[i].argv = argv(k)
                        /\ \A i, j \in 1..Len(spawned) :
                              i < j => FileIndex(spawned[i].argv[Len(spawned[i].argv)])
                                        < FileIndex(spawned[j].argv[Len(spawned[j].argv)])

\* a FILE loop over two files whose first child failed and whose second file
\* was processed all the same
C16_Witness ==
    /\ Handled_("execute_loop")
    /\ call.arg.loop_type = "FILE"
    /\ Len(regular_files) = 2
    /\ result.success
    /\ Len(result.sections) = 2
    /\ result.sections[1].report = "Error processing"
    /\ result.sections[2].report = "output"
    /\ Len(spawned) = 2
    /\ spawned[1].exit = "timeout"

\* a call of execute_query, directly or for an SQL instruction
IsStatementCall ==
    \/ call.op = "execute_query"
    \/ call.op = "execute_command" /\ IsSqlInstruction

\* C17: one call of execute_query sends at most one statement to the
\* backend, the query it was given, also when the call revived a stale
\* connection; when the backend raised, the call returns success=false and
\* the statement was not sent again.
C17_StatementSentAtMostOnce ==
    (Handled /\ IsStatementCall)
        => /\ Len(sent) <= 1
           /\ \A i \in 1..Len(sent) : sent[i].query = call.arg
           /\ result.kind \in {"Database Error", "Failed to switch database"}
                 => ~result.success

\* the backend raised on a mutating statement that had been sent
C17_Witness ==
    /\ Handled_("execute_query")
    /\ call.arg = <<"i","n","s","e","r","t"," ","x">>
    /\ result.kind = "Database Error"
    /\ ~result.success
    /\ Len(sent) = 1

NoActionNeeded ==
    { "Disconnect Status: No action needed (no active connection)",
      "Disconnect Status: No action needed (already closed)" }

\* C18: a call of disconnect_database returns (it does not raise) and leaves
\* no connection registered; made when the session is already disconnected,
\* it reports that no action was needed and changes neither the connection
\* nor the stored config.
C18_DisconnectIdempotent ==
    [][ DisconnectDatabase =>
          /\ ~result'.raised
          /\ db_connection' = NoConnection
          /\ explicitly_disconnected =>
                /\ result'.kind \in NoActionNeeded
                /\ db_connection' = db_connection
                /\ db_config' = db_config ]_vars

\* the instruction handed to execute_command is a cd
IsCd == call.op = "execute_command" /\ Tokens # <<>> /\ Tokens[1] = <<"c","d">>

\* C19: a cd instruction never takes the current directory out of the
\* subtree of the sandbox root, and a cd with one argument whose target
\* resolves outside that subtree returns success=false and leaves the
\* current directory as it was.
C19_CdStaysInSandbox ==
    [][ (ExecuteCommand /\ IsCd) =>
          /\ Contained(abs_components(cwd)) => Contained(abs_components(cwd'))
          /\ (/\ Len(Tokens) = 2
              /\ ~Contained(real_components(path_join(cwd, Tokens[2]), symlinks)))
                => (~result'.success /\ cwd' = cwd) ]_vars

\* the value of the LIMIT suffix of a TABLE loop operation (-1: not an integer)
TableLimit ==
    int(Strip(SplitHead(SplitRest(call.arg.operation, LIMIT), LIMIT)))

\* C20: a TABLE loop SHOW with the suffix LIMIT n, n >= 0, reports at most n
\* rows for every table; the statements of a COUNT or DESCRIBE loop carry no
\* LIMIT clause, whatever suffix was parsed.
C20_LimitBoundsRows ==
    (/\ Handled_("execute_loop")
     /\ call.arg.loop_type = "TABLE"
     /\ Contains(call.arg.operation, LIMIT))
        => /\ (TableOperation = <<"S","H","O","W">> /\ TableLimit >= 0)
                 => \A k \in 1..Len(result.sections) :
                       result.sections[k].rows <= TableLimit
           /\ TableOperation \in { <<"C","O","U","N","T">>,
                                   <<"D","E","S","C","R","I","B","E">> }
                 => \A i \in 1..Len(sent) : ~Contains(sent[i].query, LIMIT)

\* C21: every file that an instruction of execute_command writes lies in the
\* subtree of the sandbox root.
C21_WritesStayInSandbox ==
    Handled_("execute_command")
        => \A w \in written : Contained(real_components(w.path, symlinks))

\* C22: a FILE loop starts children only for an operation that
\* validate_command accepts; an operation with a registered executable and a
\* flag outside its allowed_flags, or a raw-code invocation, returns
\* success=false and starts no child.
C22_FileLoopValidated ==
    (Handled_("execute_loop") /\ call.arg.loop_type = "FILE")
        => LET cmd_parts == shlex_split(call.arg.operation)
               command == cmd_parts[1]
               command_args == Tail(cmd_parts)
           IN  /\ spawned # <<>>
                     => validate_command(command, command_args).ok
               /\ (/\ cmd_parts # <<>>
                   /\ command \in command_names
                   /\ \/ \E i \in 1..Len(command_args) :
                            /\ IsFlag(command_args[i])
                            /\ command_args[i] \notin allowed_flags(command)
                      \/ IsRawCode(command, command_args))
                     => (~result.success /\ spawned = <<>>)

\* C23: once a connect_to_new_database made while the session was connected
\* has failed, and until a connect registers a connection again, a query
\* sends no statement and leaves the session without a live connection: the
\* closed earlier connection is not revived.
C23_FailedConnectNeverRevives ==
    (Handled /\ IsQueryCall /\ failed_connect)
        => (sent = <<>> /\ ~db_connection.connected)

====
